---- MODULE Spec2Model ----
(***************************************************************************)
(* Inventory consistency of the musinsa backend (src/main.py): the cart    *)
(* (add_to_cart), order placement (create_order, cart path and direct      *)
(* path), restock (admin_restock) and the catalog operations that write    *)
(* Product.stock and Product.price (create_product, update_product,        *)
(* delete_product).                                                        *)
(*                                                                         *)
(* Every request is handled by its own worker with its own SQLAlchemy      *)
(* session.  A handler is split into steps at the points where another     *)
(* request can change what it goes on to read or write: a SELECT reads the *)
(* committed rows, SELECT ... FOR UPDATE first takes the row lock and      *)
(* keeps it until the transaction ends, the session's pending INSERT,      *)
(* UPDATE and DELETE reach the tables at db.commit(), and a handler that   *)
(* raises leaves its uncommitted work behind (rollback).  The store itself *)
(* (sessions, row locks, deadlock detection: database.py and the database) *)
(* is not part of the source and follows the specification's Ledger Store  *)
(* contract.                                                               *)
(***************************************************************************)
EXTENDS Integers, Sequences, FiniteSets, TLC

\* ------------------------------------------------------------------ bounds
MaxReqs == 3
MaxProducts == 2
MaxLines == 2

Reqs == 1..MaxReqs
ProductIds == 1..MaxProducts

\* users table: id -> role (models.User.role, "user" unless set to "admin")
Users == {1, 2}
role == (1 :> "admin") @@ (2 :> "user")

\* the products the store starts with, and the values requests are issued with
InitStock(p) == 5 - p
InitPrice(p) == 10
Quantities == {-1, 0, 2}
Amounts == {-5, 0, 2}
Prices == {20}
Stocks == {-1, 4}
\* an optional form field: {} is None, {v} is the value v
Optional(S) == {{}} \cup {{v} : v \in S}
Value(o) == CHOOSE v \in o : TRUE
LineQuantities == {2}
ClientPrices == {5}
TotalPrices == {7}

VARIABLES
    products,      \* products table: id -> [price, stock]
    product_seq,   \* last products.id handed out
    cart_items,    \* cart_items table: id -> [user_id, product_id, quantity]
    cart_seq,      \* last cart_items.id handed out
    orders,        \* orders table: sequence of [user_id, total_price], id = position
    order_items,   \* order_items table: sequence of [order_id, product_id, quantity, price]
    rowLock,       \* products row lock: id -> owning request, 0 = free
    req,           \* the requests: handler, arguments, position, session state
    workers        \* how many requests the server handles at a time

vars == <<products, product_seq, cart_items, cart_seq, orders, order_items, rowLock, req,
          workers>>

tables == <<products, product_seq, cart_items, cart_seq, orders, order_items>>

\* ------------------------------------------------------------ the requests
NoProduct == [price |-> 0, stock |-> 0]

IdleReq ==
    [op |-> "none", pc |-> "idle", result |-> "", user |-> 0, path |-> "",
     product_id |-> 0, quantity |-> 0, amount |-> 0,
     price |-> {}, stock |-> {}, items |-> <<>>,
     product |-> NoProduct, existing |-> 0, existing_quantity |-> 0,
     cart |-> <<>>, i |-> 0, new_order |-> 0,
     pend_items |-> <<>>, pend_stock |-> <<>>]

\* what stays of a request once its response is sent: the handler and its
\* result, the item of a successful add_to_cart, the arguments of an
\* admin_restock, the branch and the Order of a create_order
Finished(q, res) ==
    LET reserved == q.op = "add_to_cart" /\ res = "ok"
        restock == q.op = "admin_restock" IN
    [IdleReq EXCEPT !.op = q.op, !.pc = "done", !.result = res,
                    !.user = IF restock THEN q.user ELSE 0,
                    !.product_id = IF reserved \/ restock THEN q.product_id ELSE 0,
                    !.quantity = IF reserved THEN q.quantity ELSE 0,
                    !.amount = IF restock THEN q.amount ELSE 0,
                    !.path = q.path, !.new_order = q.new_order]

InFlight == {s \in Reqs : req[s].pc \notin {"idle", "done"}}

\* a request is taken up when a worker is free; requests are numbered in the
\* order they are taken up
CanBegin(r) ==
    /\ req[r].pc = "idle"
    /\ \A s \in Reqs : s < r => req[s].pc # "idle"
    /\ Cardinality(InFlight) < workers

\* --------------------------------------------------------------- the store
\* lockRowForUpdate(products, p) returns once the row lock is free or ours
RowLockFree(r, p) == rowLock[p] \in {0, r}

\* commit and rollback release every lock of the transaction
Released(r) == [p \in ProductIds |-> IF rowLock[p] = r THEN 0 ELSE rowLock[p]]

\* the session ends without a write: the handler raised (rollback) or only read
Abort(r, q, res) ==
    /\ req' = [req EXCEPT ![r] = Finished(q, res)]
    /\ rowLock' = Released(r)
    /\ UNCHANGED <<tables, workers>>

\* the handler waits for the row lock of product p
Wait(r, q, at) ==
    /\ req' = [req EXCEPT ![r] = [q EXCEPT !.pc = at]]
    /\ UNCHANGED <<tables, rowLock, workers>>

\* ------------------------------------------------------------ require_admin
require_admin(user) == role[user] = "admin"

\* -------------------------------------------------------------- add_to_cart
InsufficientStock(stock, quantity) == stock < quantity

\* the cart query filtered by the product alone
ExistingCartItemOfAnyUser(u, p) ==
    LET found == {c \in DOMAIN cart_items : cart_items[c].product_id = p}
    IN IF found = {} THEN 0 ELSE CHOOSE c \in found : \A d \in found : c <= d

\* existing = db.query(CartItem).filter(user_id == user.id,
\*                                      product_id == item.product_id).first()
ExistingCartItem(u, p) ==
    LET found == {c \in DOMAIN cart_items :
                    cart_items[c].user_id = u /\ cart_items[c].product_id = p}
    IN IF found = {} THEN 0 ELSE CHOOSE c \in found : \A d \in found : c <= d

\* the product query without with_for_update(): it never waits
NoForUpdate(r, p) == TRUE

\* the locking product query run outside the request's transaction: it waits
\* for the request's own lock as well
ForUpdateElsewhere(r, p) == rowLock[p] = 0

\* with_for_update(): the product query of add_to_cart and of the direct path
\* waits for the row lock and holds it
ForUpdate(r, p) == RowLockFree(r, p)

Locked(r, p) == [rowLock EXCEPT ![p] = r]

\* lines 237-248: the locked product query, the two checks, the cart query
atc_query(r, q) ==
    LET p == q.product_id
        e == ExistingCartItem(q.user, p) IN
    IF p \notin DOMAIN products
    THEN Abort(r, q, "ProductNotFound")
    ELSE /\ ForUpdate(r, p)
         /\ IF InsufficientStock(products[p].stock, q.quantity)
            THEN Abort(r, q, "InsufficientStock")
            ELSE /\ rowLock' = Locked(r, p)
                 /\ req' = [req EXCEPT ![r] = [q EXCEPT !.pc = "atc_commit",
                               !.product = products[p], !.existing = e,
                               !.existing_quantity =
                                   IF e = 0 THEN 0 ELSE cart_items[e].quantity]]
                 /\ UNCHANGED <<tables, workers>>

\* POST /cart arrives; the handler runs up to its first wait
add_to_cart(r) ==
    /\ CanBegin(r)
    /\ \E u \in Users, p \in ProductIds, n \in Quantities :
         LET q == [IdleReq EXCEPT !.op = "add_to_cart", !.user = u,
                                  !.product_id = p, !.quantity = n] IN
         IF p \in DOMAIN products /\ ~ForUpdate(r, p)
         THEN Wait(r, q, "atc_select")
         ELSE atc_query(r, q)

\* the lock is granted
atc_select(r) ==
    /\ req[r].pc = "atc_select"
    /\ atc_query(r, req[r])

\* lines 252-264: existing.quantity += item.quantity or a new CartItem,
\* product.stock -= item.quantity, db.commit()
atc_commit(r) ==
    LET q == req[r]
        p == q.product_id
        stocked == [products EXCEPT ![p].stock = q.product.stock - q.quantity] IN
    /\ q.pc = "atc_commit"
    /\ IF q.existing # 0 /\ q.existing \notin DOMAIN cart_items
       THEN \* the UPDATE of existing, or db.refresh(existing), finds no row
            Abort(r, q, "StaleData")
       ELSE /\ IF q.existing # 0
               THEN /\ cart_items' = [c \in DOMAIN cart_items |->
                                        IF c = q.existing
                                        THEN [cart_items[c] EXCEPT !.quantity =
                                                 q.existing_quantity + q.quantity]
                                        ELSE cart_items[c]]
                    /\ cart_seq' = cart_seq
               ELSE /\ cart_items' = cart_items @@
                           ((cart_seq + 1) :> [user_id |-> q.user, product_id |-> p,
                                               quantity |-> q.quantity])
                    /\ cart_seq' = cart_seq + 1
            /\ products' = stocked
            /\ req' = [req EXCEPT ![r] = Finished(q, "ok")]
            /\ rowLock' = Released(r)
            /\ UNCHANGED <<product_seq, orders, order_items, workers>>

\* ------------------------------------------------------------- create_order
OrderLines == [product_id : ProductIds, quantity : LineQuantities, price : ClientPrices]

ItemLists == UNION {[1..n -> OrderLines] : n \in 0..MaxLines}

RECURSIVE Ascending(_)
Ascending(S) ==
    IF S = {} THEN <<>>
    ELSE LET m == CHOOSE x \in S : \A y \in S : x <= y
         IN <<m>> \o Ascending(S \ {m})

\* cart_items = db.query(CartItem).filter(CartItem.user_id == user.id).all()
CartOf(u) == Ascending({c \in DOMAIN cart_items : cart_items[c].user_id = u})

\* lines 297-307 and 326-329: the owner check, the cart query, the choice of
\* the branch, and the Order row, committed on its own
create_order(r) ==
    /\ CanBegin(r)
    /\ \E u \in Users, order_user \in Users, total \in TotalPrices :
         LET q == [IdleReq EXCEPT !.op = "create_order", !.user = u]
             placed == Append(orders, [user_id |-> u, total_price |-> total]) IN
         IF u # order_user
         THEN Abort(r, q, "Forbidden")
         ELSE IF CartOf(u) # <<>>
         THEN /\ req' = [req EXCEPT ![r] = [q EXCEPT !.pc = "co_cart_item", !.path = "cart",
                            !.cart = CartOf(u), !.i = 1, !.new_order = Len(placed)]]
              /\ orders' = placed
              /\ UNCHANGED <<products, product_seq, cart_items, cart_seq, order_items, rowLock, workers>>
         ELSE /\ \E items \in ItemLists :
                   req' = [req EXCEPT ![r] = [q EXCEPT !.path = "direct", !.items = items,
                              !.i = 1, !.new_order = Len(placed),
                              !.pc = IF items = <<>> THEN "co_direct_commit"
                                     ELSE "co_direct_line"]]
              /\ orders' = placed
              /\ UNCHANGED <<products, product_seq, cart_items, cart_seq, order_items, rowLock, workers>>

\* the OrderItem built without ci.quantity
CartOrderItemOfOne(order_id, ci, product) ==
    [order_id |-> order_id, product_id |-> ci.product_id, quantity |-> 1,
     price |-> product.price]

\* order_item = OrderItem(order_id, ci.product_id, ci.quantity, price=product.price)
CartOrderItem(order_id, ci, product) ==
    [order_id |-> order_id, product_id |-> ci.product_id, quantity |-> ci.quantity,
     price |-> product.price]

\* lines 309-317 for one ci: the commit of the Order expired cart_items, so
\* ci.product_id loads the row again; then the product query, db.add(order_item)
\* and db.delete(ci)
co_cart_item(r) ==
    LET q == req[r]
        c == q.cart[q.i] IN
    /\ q.pc = "co_cart_item"
    /\ IF c \notin DOMAIN cart_items
       THEN Abort(r, q, "ObjectDeleted")
       ELSE IF cart_items[c].product_id \notin DOMAIN products
       THEN Abort(r, q, "ProductNotFound")
       ELSE /\ req' = [req EXCEPT ![r] = [q EXCEPT
                          !.pend_items = Append(@, CartOrderItem(q.new_order, cart_items[c],
                                                    products[cart_items[c].product_id])),
                          !.i = q.i + 1,
                          !.pc = IF q.i = Len(q.cart) THEN "co_cart_commit"
                                 ELSE "co_cart_item"]]
            /\ UNCHANGED <<tables, rowLock, workers>>

\* line 318, db.commit() of the cart path: the OrderItems are inserted and the
\* cart rows deleted (a DELETE that matches no row is only warned about)
co_cart_commit(r) ==
    LET q == req[r]
        gone == {q.cart[k] : k \in 1..Len(q.cart)} IN
    /\ q.pc = "co_cart_commit"
    /\ order_items' = order_items \o q.pend_items
    /\ cart_items' = [c \in DOMAIN cart_items \ gone |-> cart_items[c]]
    /\ req' = [req EXCEPT ![r] = Finished(q, "ok")]
    /\ rowLock' = Released(r)
    /\ UNCHANGED <<products, product_seq, cart_seq, orders, workers>>

\* order_item = OrderItem(order_id, item.product_id, item.quantity, price=item.price)
DirectOrderItem(order_id, item, product) ==
    [order_id |-> order_id, product_id |-> item.product_id, quantity |-> item.quantity,
     price |-> item.price]

\* lines 331-339 for one line of order.items
co_direct_line(r) ==
    LET q == req[r]
        item == q.items[q.i]
        p == item.product_id
        \* product.stock as the session holds it once it has loaded the row
        stock == IF p \in DOMAIN q.pend_stock THEN q.pend_stock[p] ELSE products[p].stock IN
    /\ q.pc = "co_direct_line"
    /\ IF p \notin DOMAIN products
       THEN Abort(r, q, "ProductNotFound")
       ELSE /\ ForUpdate(r, p)
            /\ IF InsufficientStock(stock, item.quantity)
               THEN Abort(r, q, "InsufficientStock")
               ELSE /\ rowLock' = Locked(r, p)
                    /\ req' = [req EXCEPT ![r] = [q EXCEPT
                                  !.pend_stock = (p :> (stock - item.quantity)) @@ @,
                                  !.pend_items = Append(@, DirectOrderItem(q.new_order, item,
                                                                           products[p])),
                                  !.i = q.i + 1,
                                  !.pc = IF q.i = Len(q.items) THEN "co_direct_commit"
                                         ELSE "co_direct_line"]]
                    /\ UNCHANGED <<tables, workers>>

\* line 340, db.commit() of the direct path
co_direct_commit(r) ==
    LET q == req[r] IN
    /\ q.pc = "co_direct_commit"
    /\ products' = [p \in DOMAIN products |->
                      IF p \in DOMAIN q.pend_stock
                      THEN [products[p] EXCEPT !.stock = q.pend_stock[p]]
                      ELSE products[p]]
    /\ order_items' = order_items \o q.pend_items
    /\ req' = [req EXCEPT ![r] = Finished(q, "ok")]
    /\ rowLock' = Released(r)
    /\ UNCHANGED <<product_seq, cart_items, cart_seq, orders, workers>>

\* ------------------------------------------------------------ admin_restock
\* the amount check that lets 0 through
NegativeAmount(amount) == amount < 0

\* line 433: if amount <= 0
InvalidAmount(amount) == amount <= 0

\* lines 432-437: require_admin, the amount check, the product query
admin_restock(r) ==
    /\ CanBegin(r)
    /\ \E u \in Users, p \in ProductIds, amount \in Amounts :
         LET q == [IdleReq EXCEPT !.op = "admin_restock", !.user = u,
                                  !.product_id = p, !.amount = amount] IN
         IF ~require_admin(u) THEN Abort(r, q, "Forbidden")
         ELSE IF InvalidAmount(amount) THEN Abort(r, q, "InvalidAmount")
         ELSE IF p \notin DOMAIN products THEN Abort(r, q, "ProductNotFound")
         ELSE /\ req' = [req EXCEPT ![r] = [q EXCEPT !.pc = "rs_commit",
                                                     !.product = products[p]]]
              /\ UNCHANGED <<tables, rowLock, workers>>

\* lines 438-439: product.stock += amount; db.commit().  The UPDATE writes the
\* value the handler computed and waits for the row lock like any write
rs_commit(r) ==
    LET q == req[r]
        p == q.product_id IN
    /\ q.pc = "rs_commit"
    /\ IF p \notin DOMAIN products
       THEN \* the UPDATE matches no row
            Abort(r, q, "StaleData")
       ELSE /\ RowLockFree(r, p)
            /\ products' = [products EXCEPT ![p].stock = q.product.stock + q.amount]
            /\ req' = [req EXCEPT ![r] = Finished(q, "ok")]
            /\ rowLock' = Released(r)
            /\ UNCHANGED <<product_seq, cart_items, cart_seq, orders, order_items, workers>>

\* ----------------------------------------------------------- create_product
\* lines 139-152 (no role check, no check of the values)
create_product(r) ==
    /\ CanBegin(r)
    /\ product_seq < MaxProducts
    /\ \E price \in Prices, stock \in Stocks :
         /\ products' = products @@ ((product_seq + 1) :> [price |-> price, stock |-> stock])
         /\ product_seq' = product_seq + 1
         /\ req' = [req EXCEPT ![r] = Finished([IdleReq EXCEPT !.op = "create_product"], "ok")]
    /\ UNCHANGED <<cart_items, cart_seq, orders, order_items, rowLock, workers>>

\* ----------------------------------------------------------- update_product
\* lines 181-184: require_admin and the product query
update_product(r) ==
    /\ CanBegin(r)
    /\ \E u \in Users, p \in ProductIds, price \in Optional(Prices), stock \in Optional(Stocks) :
         LET q == [IdleReq EXCEPT !.op = "update_product", !.user = u, !.product_id = p,
                                  !.price = price, !.stock = stock] IN
         IF ~require_admin(u) THEN Abort(r, q, "Forbidden")
         ELSE IF p \notin DOMAIN products THEN Abort(r, q, "ProductNotFound")
         ELSE /\ req' = [req EXCEPT ![r] = [q EXCEPT !.pc = "up_commit",
                                                     !.product = products[p]]]
              /\ UNCHANGED <<tables, rowLock, workers>>

\* lines 196-203: the fields the form gave are set on the loaded product
Updated(product, price, stock) ==
    [price |-> IF price # {} THEN Value(price) ELSE product.price,
     stock |-> IF stock # {} THEN Value(stock) ELSE product.stock]

\* line 207, db.commit(): the UPDATE sets the columns whose value changed
up_commit(r) ==
    LET q == req[r]
        p == q.product_id
        new == Updated(q.product, q.price, q.stock) IN
    /\ q.pc = "up_commit"
    /\ IF p \notin DOMAIN products
       THEN \* the UPDATE, or db.refresh(product), finds no row
            Abort(r, q, "StaleData")
       ELSE IF new = q.product
       THEN \* nothing to write
            Abort(r, q, "ok")
       ELSE /\ RowLockFree(r, p)
            /\ products' = [products EXCEPT
                  ![p].price = IF new.price # q.product.price THEN new.price ELSE @,
                  ![p].stock = IF new.stock # q.product.stock THEN new.stock ELSE @]
            /\ req' = [req EXCEPT ![r] = Finished(q, "ok")]
            /\ rowLock' = Released(r)
            /\ UNCHANGED <<product_seq, cart_items, cart_seq, orders, order_items, workers>>

\* ----------------------------------------------------------- delete_product
\* lines 217-220: require_admin and the product query
delete_product(r) ==
    /\ CanBegin(r)
    /\ \E u \in Users, p \in ProductIds :
         LET q == [IdleReq EXCEPT !.op = "delete_product", !.user = u, !.product_id = p] IN
         IF ~require_admin(u) THEN Abort(r, q, "Forbidden")
         ELSE IF p \notin DOMAIN products THEN Abort(r, q, "ProductNotFound")
         ELSE /\ req' = [req EXCEPT ![r] = [q EXCEPT !.pc = "dp_commit"]]
              /\ UNCHANGED <<tables, rowLock, workers>>

\* cart_items.product_id and order_items.product_id are declared ForeignKey
Referenced(p) ==
    \/ \E c \in DOMAIN cart_items : cart_items[c].product_id = p
    \/ \E k \in DOMAIN order_items : order_items[k].product_id = p

\* lines 221-222: db.delete(product); db.commit().  A store that enforces the
\* foreign keys refuses to delete a referenced product, one that does not
\* (SQLite by default) deletes it
dp_commit(r) ==
    LET q == req[r]
        p == q.product_id IN
    /\ q.pc = "dp_commit"
    /\ RowLockFree(r, p)
    /\ \/ /\ Referenced(p)
          /\ p \in DOMAIN products
          /\ Abort(r, q, "IntegrityError")
       \/ /\ products' = [x \in DOMAIN products \ {p} |-> products[x]]
          /\ req' = [req EXCEPT ![r] = Finished(q, "ok")]
          /\ rowLock' = Released(r)
          /\ UNCHANGED <<product_seq, cart_items, cart_seq, orders, order_items, workers>>

\* -------------------------------------------------------- deadlock detection
\* the request that holds the row lock request r is waiting for, 0 if none
Blocker(r) ==
    LET q == req[r]
        p == IF q.pc = "co_direct_line" THEN q.items[q.i].product_id
             ELSE IF q.pc \in {"atc_select", "rs_commit", "up_commit", "dp_commit"}
             THEN q.product_id ELSE 0 IN
    IF p # 0 /\ rowLock[p] # r THEN rowLock[p] ELSE 0

RECURSIVE BlockerChain(_, _)
BlockerChain(r, k) ==
    IF k = 0 \/ r = 0 THEN {}
    ELSE {Blocker(r)} \cup BlockerChain(Blocker(r), k - 1)

\* the store finds request r in a cycle of waits and ends its transaction
\* with an error
deadlock_detected(r) ==
    /\ r \in BlockerChain(r, MaxReqs)
    /\ Abort(r, req[r], "DeadlockDetected")

\* ------------------------------------------------------------ specification
\* a store with some products and no carts or orders yet
InitStore ==
    /\ \E n \in 1..MaxProducts :
         /\ products = [p \in 1..n |-> [price |-> InitPrice(p), stock |-> InitStock(p)]]
         /\ product_seq = n
    /\ cart_items = <<>>
    /\ cart_seq = 0
    /\ orders = <<>>
    /\ order_items = <<>>
    /\ rowLock = [p \in ProductIds |-> 0]
    /\ req = [r \in Reqs |-> IdleReq]

Init == InitStore /\ workers = MaxReqs

Next ==
    \E r \in Reqs :
        \/ add_to_cart(r)
        \/ atc_select(r)
        \/ atc_commit(r)
        \/ create_order(r)
        \/ co_cart_item(r)
        \/ co_cart_commit(r)
        \/ co_direct_line(r)
        \/ co_direct_commit(r)
        \/ admin_restock(r)
        \/ rs_commit(r)
        \/ create_product(r)
        \/ update_product(r)
        \/ up_commit(r)
        \/ delete_product(r)
        \/ dp_commit(r)
        \/ deadlock_detected(r)

Spec == Init /\ [][Next]_vars

\* only POST /cart requests, every worker busy
NextReserve ==
    \E r \in Reqs :
        \/ add_to_cart(r)
        \/ atc_select(r)
        \/ atc_commit(r)

SpecReserve == Init /\ [][NextReserve]_vars

\* one worker: a request is taken up when the one before it has been answered
InitSeq == InitStore /\ workers = 1

NextSeq ==
    \E r \in Reqs :
        \/ add_to_cart(r)
        \/ atc_commit(r)
        \/ create_order(r)
        \/ co_cart_item(r)
        \/ co_cart_commit(r)
        \/ co_direct_line(r)
        \/ co_direct_commit(r)
        \/ admin_restock(r)
        \/ rs_commit(r)
        \/ create_product(r)
        \/ update_product(r)
        \/ up_commit(r)
        \/ delete_product(r)
        \/ dp_commit(r)

SpecSeq == InitSeq /\ [][NextSeq]_vars

\* the reserve, order and restock requests under a fair scheduler: a handler
\* that can take its next step takes it, and the store looks for deadlocks
Step(r) ==
    \/ atc_select(r)
    \/ atc_commit(r)
    \/ co_cart_item(r)
    \/ co_cart_commit(r)
    \/ co_direct_line(r)
    \/ co_direct_commit(r)
    \/ rs_commit(r)
    \/ deadlock_detected(r)

NextLive ==
    \E r \in Reqs :
        \/ add_to_cart(r)
        \/ create_order(r)
        \/ admin_restock(r)
        \/ Step(r)

SpecLive == Init /\ [][NextLive]_vars /\ WF_vars(\E r \in Reqs : Step(r))

\* the reserve, order and restock requests in any interleaving
SpecStock == Init /\ [][NextLive]_vars

\* ------------------------------------------------------------------ claims
RECURSIVE SumQuantity(_)
SumQuantity(R) ==
    IF R = {} THEN 0
    ELSE LET r == CHOOSE x \in R : TRUE
         IN req[r].quantity + SumQuantity(R \ {r})

\* the add_to_cart requests that succeeded on product p
Reserved(p) ==
    {r \in Reqs : req[r].op = "add_to_cart" /\ req[r].result = "ok" /\ req[r].product_id = p}

ReserveLedger ==
    \A p \in DOMAIN products :
        /\ products[p].stock = InitStock(p) - SumQuantity(Reserved(p))
        /\ \A a, b \in Reserved(p) :
              a # b /\ Reserved(p) = {a, b} => req[a].quantity + req[b].quantity <= InitStock(p)

ReserveCommits(r) == req[r].pc = "atc_commit" /\ req'[r].result = "ok"

\* C1: with only reserve requests running, in any interleaving, a reserve
\* succeeds only when the committed stock it decrements is at least its
\* quantity, the stock of every product is its initial stock minus the sum of
\* the quantities of the successful reserves, and two reserves whose combined
\* quantity exceeds the initial stock are never the two that succeeded
C1_ReserveNeverOversells ==
    [][/\ ReserveLedger'
       /\ \A r \in Reqs : ReserveCommits(r) =>
             /\ products[req[r].product_id].stock >= req[r].quantity
             /\ products'[req[r].product_id].stock =
                    products[req[r].product_id].stock - req[r].quantity]_vars

\* C1 witness: on the product with stock 3, of two reserves of 2 one succeeded
\* and the other failed with InsufficientStock, and 1 is left
C1_Witness ==
    /\ 2 \in DOMAIN products /\ products[2].stock = 1
    /\ 1 \in DOMAIN products /\ products[1].stock = InitStock(1)
    /\ \E a, b \in Reqs :
          /\ a # b
          /\ req[a].op = "add_to_cart" /\ req[a].result = "ok"
          /\ req[a].product_id = 2 /\ req[a].quantity = 2
          /\ req[b].op = "add_to_cart" /\ req[b].result = "InsufficientStock"
          /\ \A c \in Reqs \ {a, b} : req[c].pc = "idle"

AtMostOneCartItem ==
    \A c, d \in DOMAIN cart_items :
        (/\ cart_items[c].user_id = cart_items[d].user_id
         /\ cart_items[c].product_id = cart_items[d].product_id) => c = d

CartRows(u, p) ==
    {c \in DOMAIN cart_items : cart_items[c].user_id = u /\ cart_items[c].product_id = p}

\* C2: there is never more than one CartItem per (user, product); a reserve
\* that succeeds for a pair that has a CartItem leaves that one CartItem with
\* the sum of the quantities, one that succeeds for a pair without a CartItem
\* leaves one CartItem with its quantity, and either lowers the stock of the
\* product by exactly its quantity
C2_OneCartItemPerUserAndProduct ==
    [][/\ AtMostOneCartItem'
       /\ \A r \in Reqs : ReserveCommits(r) =>
             LET u == req[r].user
                 p == req[r].product_id
                 n == req[r].quantity
                 before == CartRows(u, p)
                 after == {c \in DOMAIN cart_items' : cart_items'[c].user_id = u
                                                      /\ cart_items'[c].product_id = p} IN
             /\ Cardinality(after) = 1
             /\ before # {} => after = before
             /\ \A c \in after :
                   cart_items'[c].quantity =
                       IF c \in before THEN cart_items[c].quantity + n ELSE n
             /\ products'[p].stock = products[p].stock - n]_vars

\* C2 witness: two successful reserves of 2 by one user for one product have
\* left a single CartItem of quantity 4 and lowered the stock by 4
C2_Witness ==
    \E a, b \in Reqs :
        /\ a # b
        /\ req[a].op = "add_to_cart" /\ req[a].result = "ok" /\ req[a].quantity = 2
        /\ req[b].op = "add_to_cart" /\ req[b].result = "ok" /\ req[b].quantity = 2
        /\ req[a].product_id = 1 /\ req[b].product_id = 1
        /\ \A c \in Reqs \ {a, b} : req[c].pc = "idle"
        /\ Cardinality(DOMAIN cart_items) = 1
        /\ \A c \in DOMAIN cart_items : cart_items[c].quantity = 4
        /\ products[1].stock = InitStock(1) - 4

OrderItemsOf(items, o) == {k \in DOMAIN items : items[k].order_id = o}

\* C3: with requests served one at a time, a create_order that succeeds on a
\* non-empty cart has made one Order of the user, gives it exactly one
\* OrderItem per CartItem the user had, with that CartItem's product_id and
\* quantity and the product's price, leaves the user no CartItem, changes no
\* other OrderItem and no product (so no stock)
C3_CartOrderMatchesCart ==
    [][\A r \in Reqs :
         /\ (req'[r].path = "cart" /\ req'[r] # req[r]) =>
               /\ products' = products
               /\ Len(orders') = Len(orders) + (IF req[r].pc = "idle" THEN 1 ELSE 0)
         /\ (req[r].pc = "co_cart_commit" /\ req'[r].result = "ok") =>
               LET u == req[r].user
                   o == req[r].new_order
                   cart == {c \in DOMAIN cart_items : cart_items[c].user_id = u}
                   new == OrderItemsOf(order_items', o) IN
               /\ o \in DOMAIN orders /\ orders[o].user_id = u
               /\ cart # {}
               /\ OrderItemsOf(order_items, o) = {}
               /\ Cardinality(new) = Cardinality(cart)
               /\ \A c \in cart : \E k \in new :
                     order_items'[k] =
                         [order_id |-> o, product_id |-> cart_items[c].product_id,
                          quantity |-> cart_items[c].quantity,
                          price |-> products[cart_items[c].product_id].price]
               /\ \A c \in DOMAIN cart_items' : cart_items'[c].user_id # u
               /\ \A c \in DOMAIN cart_items' : cart_items'[c] = cart_items[c]
               /\ \A k \in DOMAIN order_items : order_items'[k] = order_items[k]]_vars

\* C3 witness: an order made from a cart of two CartItems, of quantity 2 each,
\* has its two OrderItems and the cart is empty
C3_Witness ==
    \E r \in Reqs :
        /\ req[r].op = "create_order" /\ req[r].path = "cart" /\ req[r].result = "ok"
        /\ cart_items = <<>>
        /\ Cardinality(OrderItemsOf(order_items, req[r].new_order)) = 2
        /\ \A k \in DOMAIN order_items :
              order_items[k].quantity = 2 /\ order_items[k].price = InitPrice(1)
        /\ \A p \in DOMAIN products : products[p].stock = InitStock(p) - 2

\* C4 as claimed: a direct-path create_order that fails on a line with
\* ProductNotFound or InsufficientStock leaves no Order and no OrderItem of the
\* request and no product changed
C4_DirectOrderAllOrNothing ==
    [][\A r \in Reqs :
         (/\ req[r].pc = "co_direct_line"
          /\ req'[r].result \in {"ProductNotFound", "InsufficientStock"}) =>
             /\ products' = products
             /\ OrderItemsOf(order_items', req[r].new_order) = {}
             /\ req[r].new_order \notin DOMAIN orders']_vars

\* C5 as claimed: an Order made from a cart is never in the orders table
\* without an OrderItem, and a cart-path create_order that fails with
\* ProductNotFound leaves no Order and no OrderItem of the request and the cart
\* as it was
C5_CartOrderSingleTransaction ==
    [][\A r \in Reqs :
         /\ (req'[r].path = "cart" /\ req'[r].new_order \in DOMAIN orders') =>
               OrderItemsOf(order_items', req'[r].new_order) # {}
         /\ (req[r].pc = "co_cart_item" /\ req'[r].result = "ProductNotFound") =>
               /\ cart_items' = cart_items
               /\ OrderItemsOf(order_items', req[r].new_order) = {}
               /\ req[r].new_order \notin DOMAIN orders']_vars

\* C6 as claimed: the stock of every product is at least 0 in every state
C6_StockNeverNegative == \A p \in DOMAIN products : products[p].stock >= 0

\* C7 as claimed: a restock that commits after decrements of the stock it
\* read were committed adds its amount to the stock as decremented
C7_RestockLosesNoUpdate ==
    [][\A r \in Reqs :
         (/\ req[r].pc = "rs_commit" /\ req'[r].result = "ok"
          /\ products[req[r].product_id].stock <= req[r].product.stock) =>
             products'[req[r].product_id].stock =
                 products[req[r].product_id].stock + req[r].amount]_vars

\* C8: with requests served one at a time, an admin_restock of a non-admin
\* fails as Forbidden, of an admin with amount <= 0 as InvalidAmount, of an
\* admin with amount > 0 for a missing product as ProductNotFound, each leaving
\* every product as it was; any other adds amount to the stock of the product
\* and changes nothing else of the products
C8_RestockContract ==
    [][\A r \in Reqs :
         LET b == req'[r] IN
         (b.op = "admin_restock" /\ b # req[r]) =>
             IF b.pc = "done" /\ b.result # "ok"
             THEN /\ products' = products
                  /\ b.result = IF role[b.user] # "admin" THEN "Forbidden"
                                ELSE IF b.amount <= 0 THEN "InvalidAmount"
                                ELSE "ProductNotFound"
                  /\ b.result = "ProductNotFound" => b.product_id \notin DOMAIN products
             ELSE /\ role[b.user] = "admin"
                  /\ b.amount > 0
                  /\ b.product_id \in DOMAIN products
                  /\ products' = IF b.pc = "done"
                                 THEN [products EXCEPT ![b.product_id].stock = @ + b.amount]
                                 ELSE products]_vars

\* C8 witness: an admin's restock of 2 has raised the stock by 2, a restock of
\* -5 has failed with InvalidAmount and a non-admin's with Forbidden
C8_Witness ==
    \E a, b, c \in Reqs :
        /\ req[a].op = "admin_restock" /\ req[a].result = "ok" /\ req[a].amount = 2
        /\ products[req[a].product_id].stock = InitStock(req[a].product_id) + 2
        /\ req[b].op = "admin_restock" /\ req[b].result = "InvalidAmount" /\ req[b].amount = -5
        /\ req[c].op = "admin_restock" /\ req[c].result = "Forbidden"

\* C10 as claimed: the price of an OrderItem is the price its product has when
\* the handler builds it, on the cart path and on the direct path, and no row
\* of order_items changes once it is committed
C10_OrderItemPriceIsSnapshot ==
    [][/\ \A k \in DOMAIN order_items : order_items'[k] = order_items[k]
       /\ \A r \in Reqs :
            LET n == Len(req'[r].pend_items) IN
            n > Len(req[r].pend_items) =>
                req'[r].pend_items[n].price =
                    products[req'[r].pend_items[n].product_id].price]_vars

C11_CartItemQuantityPositive ==
    [][/\ \A c \in DOMAIN cart_items' : cart_items'[c].quantity >= 1
       /\ \A r \in Reqs : ReserveCommits(r) =>
             products'[req[r].product_id].stock <= products[req[r].product_id].stock]_vars

\* the sum of f[k].quantity over the rows k in K
RECURSIVE SumRows(_, _)
SumRows(f, K) ==
    IF K = {} THEN 0
    ELSE LET k == CHOOSE x \in K : TRUE
         IN f[k].quantity + SumRows(f, K \ {k})

InCarts(p) == SumRows(cart_items, {c \in DOMAIN cart_items : cart_items[c].product_id = p})

InOrders(p) == SumRows(order_items, {k \in DOMAIN order_items : order_items[k].product_id = p})

RECURSIVE SumAmount(_)
SumAmount(R) ==
    IF R = {} THEN 0
    ELSE LET r == CHOOSE x \in R : TRUE
         IN req[r].amount + SumAmount(R \ {r})

\* the amounts of the restocks of product p that succeeded
Restocked(p) ==
    SumAmount({r \in Reqs : req[r].op = "admin_restock" /\ req[r].result = "ok"
                             /\ req[r].product_id = p})

\* C12 as claimed: with reserve, create_order and restock requests in any
\* interleaving, for every product the stock plus the quantities of its
\* CartItems plus the quantities of its OrderItems is the initial stock plus
\* the amounts of its successful restocks
C12_StockConservation ==
    \A p \in DOMAIN products :
        products[p].stock + InCarts(p) + InOrders(p) = InitStock(p) + Restocked(p)
====
